---- MODULE Spec2Model ----
(***************************************************************************)
(* Ratio_to_absolute_pH.py: conversion of 465/405 ratiometric images to    *)
(* absolute pH.  The module models                                          *)
(*   - the pure per-pixel functions (normalize_pixel, convert_to_pH,       *)
(*     process_image) and the file discovery (getFileList), each applied   *)
(*     to inputs drawn from bounded sets (PixelSpec, WalkSpec);            *)
(*   - the script's main code as a state machine (Spec, FairSpec):         *)
(*     calibration block, discovery, one action per loop iteration, and    *)
(*     the final log line.                                                  *)
(* Floating-point numbers are modelled as exact rationals plus NaN.        *)
(***************************************************************************)
EXTENDS Integers, Sequences, FiniteSets, TLC

VARIABLES
    pc,           \* position of the main code: calib, discover, loop, done, aborted, off
    exc,          \* the uncaught exception that ended the script, or "none"
    calib_mode,   \* script parameter calib_mode
    lower_ratio,  \* script parameter / variable lower_ratio (None when not entered)
    upper_ratio,  \* script parameter / variable upper_ratio
    lower_image,  \* script parameter lower_image (a path or NoFile)
    upper_image,  \* script parameter upper_image
    lut_choice,   \* script parameter lut_method as chosen in the dialog
    lut_method,   \* script variable lut_method (reassigned by the fallback)
    catalog,      \* the LUT names LutLoader.getLut finds
    files,        \* the list returned by getFileList
    i,            \* loop counter of enumerate(files, 1); 0 before the loop
    img,          \* script variable img
    pH_img,       \* script variable pH_img
    events,       \* everything the script did: log lines and ImageJ calls, in order
    outdir,       \* the files in the output directory
    call          \* last application of a pure function (PixelSpec, WalkSpec)

vars == <<pc, exc, calib_mode, lower_ratio, upper_ratio, lower_image, upper_image,
          lut_choice, lut_method, catalog, files, i, img, pH_img, events, outdir, call>>

\* ---------------------------------------------------------------- bounds

\* Ratio values, samples and coefficients range over -MaxVal..MaxVal.
MaxVal == 2
\* An image buffer of the pixel model holds at most MaxPixels samples.
MaxPixels == 2
\* A directory walk lists at most MaxFiles entries in all.
MaxFiles == 3
\* File names and extension filters of the discovery model.
MaxNameLen == 3
MaxExtLen == 2

\* ---------------------------------------------------------------- floats

\* A Python float: an exact rational n/d in lowest terms with d > 0, or NaN.
\* None (a parameter left empty) has the same shape, so that values compare.
NaN == [k |-> "nan", n |-> 0, d |-> 1]
None == [k |-> "none", n |-> 0, d |-> 1]

Abs(x) == IF x < 0 THEN -x ELSE x

RECURSIVE Gcd(_, _)
Gcd(a, b) == IF b = 0 THEN a ELSE Gcd(b, a % b)

Flt(n, d) ==
    LET s == IF d < 0 THEN -1 ELSE 1
        g == Gcd(Abs(n), Abs(d))
    IN  [k |-> "num", n |-> (s * n) \div g, d |-> (s * d) \div g]

Num(x) == Flt(x, 1)

isnan(a) == a.k = "nan"

FAdd(a, b) == IF isnan(a) \/ isnan(b) THEN NaN ELSE Flt(a.n * b.d + b.n * a.d, a.d * b.d)
FSub(a, b) == IF isnan(a) \/ isnan(b) THEN NaN ELSE Flt(a.n * b.d - b.n * a.d, a.d * b.d)
FMul(a, b) == IF isnan(a) \/ isnan(b) THEN NaN ELSE Flt(a.n * b.n, a.d * b.d)
\* a / b for b # 0 (the caller raises ZeroDivisionError otherwise)
FDiv(a, b) == IF isnan(a) \/ isnan(b) THEN NaN ELSE Flt(a.n * b.d, a.d * b.n)
\* comparisons with NaN are false
FLt(a, b) == ~isnan(a) /\ ~isnan(b) /\ a.n * b.d < b.n * a.d
FEqZero(a) == ~isnan(a) /\ a.n = 0

\* Python's builtin min(a, b) and max(a, b): the first argument is kept unless
\* the second is strictly smaller (larger).
PyMin(a, b) == IF FLt(b, a) THEN b ELSE a
PyMax(a, b) == IF FLt(a, b) THEN b ELSE a

ZeroDivisionError == [exc |-> "ZeroDivisionError"]
Raised(r) == "exc" \in DOMAIN r

\* ---------------------------------------------------------------- pixel functions

normalize_pixel_noclamp(val, lower, upper) ==
    IF FEqZero(FSub(upper, lower)) THEN ZeroDivisionError
    ELSE FDiv(FSub(val, lower), FSub(upper, lower))

normalize_pixel(val, lower, upper) ==
    IF FEqZero(FSub(upper, lower)) THEN ZeroDivisionError
    ELSE LET norm == FDiv(FSub(val, lower), FSub(upper, lower))
         IN  PyMax(Num(0), PyMin(Num(1), norm))

convert_to_pH_square_for_cube(norm_val, B3, B2, B1, B0) ==
    LET n2 == FMul(norm_val, norm_val)
    IN  FAdd(FAdd(FAdd(FMul(B3, n2), FMul(B2, n2)), FMul(B1, norm_val)), B0)

convert_to_pH(norm_val, B3, B2, B1, B0) ==
    LET n2 == FMul(norm_val, norm_val)
        n3 == FMul(n2, norm_val)
    IN  FAdd(FAdd(FAdd(FMul(B3, n3), FMul(B2, n2)), FMul(B1, norm_val)), B0)

\* An image: title, bit depth, width, height and the samples pix[<<x, y>>].
Positions(w, h) == (0 .. w - 1) \X (0 .. h - 1)

\* FloatProcessor(width, height): all samples 0.0
FloatProcessor(w, h) == [p \in Positions(w, h) |-> Num(0)]

PH_PREFIX == <<"p", "H", "_">>

\* The body of the two nested loops for the sample at (x, y).
pixel_value_nozero(val, lower, upper, B) ==
    IF isnan(val) THEN NaN
    ELSE LET norm_val == normalize_pixel(val, lower, upper)
         IN  IF Raised(norm_val) THEN norm_val
             ELSE convert_to_pH(norm_val, B[1], B[2], B[3], B[4])

pixel_value(val, lower, upper, B) ==
    IF isnan(val) \/ FEqZero(val) THEN NaN
    ELSE LET norm_val == normalize_pixel(val, lower, upper)
         IN  IF Raised(norm_val) THEN norm_val
             ELSE convert_to_pH(norm_val, B[1], B[2], B[3], B[4])

\* The processors process_image works with are objects of their own, named
\* here by the expressions that create them: img_ip is img.getProcessor(), ip
\* its duplicate().convertToFloat() and pH_ip the FloatProcessor(width, height).
\* heap gives the samples of each.

\* for y in range(height): for x in range(width): ...  The position counter c
\* runs row by row, reading the processor src and writing the processor dst;
\* the first sample that raises ends the loops.
RECURSIVE pixel_loop(_, _, _, _, _, _, _, _, _)
pixel_loop(heap, src, dst, c, w, h, lower, upper, B) ==
    IF c >= w * h THEN [heap |-> heap, raise |-> "none"]
    ELSE LET x == c % w
             y == c \div w
             v == pixel_value(heap[src][<<x, y>>], lower, upper, B)
         IN  IF Raised(v) THEN [heap |-> heap, raise |-> v.exc]
             ELSE pixel_loop([heap EXCEPT ![dst][<<x, y>>] = v], src, dst, c + 1,
                             w, h, lower, upper, B)

\* the three processors when the loops begin
processors(im) ==
    [img_ip |-> im.pix, ip |-> im.pix, pH_ip |-> FloatProcessor(im.w, im.h)]

\* what the loops leave, and the processor the ImagePlus returned is made of
refs(after, returned) == [heap |-> after.heap, raise |-> after.raise, returned |-> returned]

process_image_refs_in_place(im, lower, upper, B) ==
    refs(pixel_loop(processors(im), "img_ip", "img_ip", 0, im.w, im.h, lower, upper, B),
         "img_ip")

\* The body of process_image on the processors: the samples of each processor
\* when the loops end, the exception raised if any, and the processor returned.
process_image_refs(im, lower, upper, B) ==
    refs(pixel_loop(processors(im), "ip", "pH_ip", 0, im.w, im.h, lower, upper, B),
         "pH_ip")

\* return ImagePlus("pH_" + img.getTitle(), pH_ip), unless the loops raised
returned_image(im, r) ==
    IF r.raise # "none" THEN [exc |-> r.raise]
    ELSE [title |-> PH_PREFIX \o im.title, depth |-> 32, w |-> im.w, h |-> im.h,
          pix |-> r.heap[r.returned], lut |-> "none", range |-> <<>>, overlay |-> FALSE]

process_image(im, lower, upper, B) ==
    returned_image(im, process_image_refs(im, lower, upper, B))

\* ---------------------------------------------------------------- pixel model

\* IJ.openImage returned None / the variable holds no image
NoneImg == [none |-> TRUE]
IsNone(im) == "none" \in DOMAIN im

\* a File parameter left empty
NoFile == [dir |-> "", name |-> <<>>]

\* The main code is not running: the state of the script's globals while a
\* function is applied on its own.
RunOff ==
    /\ pc = "off" /\ exc = "none" /\ calib_mode = "Manual"
    /\ lower_ratio = None /\ upper_ratio = None
    /\ lower_image = NoFile /\ upper_image = NoFile
    /\ lut_choice = "Fire" /\ lut_method = "Fire" /\ catalog = {"Fire"}
    /\ files = <<>> /\ i = 0 /\ img = NoneImg /\ pH_img = NoneImg
    /\ events = <<>> /\ outdir = {}

runvars == <<pc, exc, calib_mode, lower_ratio, upper_ratio, lower_image, upper_image,
             lut_choice, lut_method, catalog, files, i, img, pH_img, events, outdir>>

NoCall == [fn |-> "none"]

Ints == (-MaxVal) .. MaxVal
Ratios == {Num(x) : x \in Ints}
Samples == Ratios \cup {NaN}

\* Coefficient tuples (B3, B2, B1, B0): the identity mapping of the spec's
\* example and the script's defaults 3.4347, -5.7843, 4.2768, 5.0497 rounded.
IdentityB == <<Num(0), Num(0), Num(1), Num(0)>>
DefaultB == <<Num(3), Num(-6), Num(4), Num(5)>>
ProcCoeffs == {IdentityB, DefaultB}
AllCoeffs == {<<Num(a), Num(b), Num(c), Num(e)>> : a \in Ints, b \in Ints, c \in Ints, e \in Ints}
Norms == {Num(0), Num(1), Flt(1, 2), Flt(1, 3), Flt(2, 3), Num(-1), Flt(3, 2), NaN}

Shapes == {s \in (1 .. MaxPixels) \X (1 .. MaxPixels) : s[1] * s[2] <= MaxPixels}

TitleA == <<"a", ".", "t", "i", "f">>

Image32(title, w, h, pix) == [title |-> title, depth |-> 32, w |-> w, h |-> h, pix |-> pix]

SmallImages ==
    UNION {{Image32(TitleA, s[1], s[2], pix) : pix \in [Positions(s[1], s[2]) -> Samples]} :
           s \in Shapes}

\* The example of the spec: samples 150, 0, 250 with bounds 100 and 200.
ExampleImage ==
    Image32(TitleA, 3, 1, (<<0, 0>> :> Num(150)) @@ (<<1, 0>> :> Num(0)) @@ (<<2, 0>> :> Num(250)))
ExampleLower == Num(100)
ExampleUpper == Num(200)

CallNormalize ==
    /\ call = NoCall
    /\ \E val \in Samples \cup {Num(150), Num(250)},
          b \in (Ratios \X Ratios) \cup {<<ExampleLower, ExampleUpper>>} :
          call' = [fn |-> "normalize_pixel", val |-> val, lower |-> b[1], upper |-> b[2],
                   result |-> normalize_pixel(val, b[1], b[2])]
    /\ UNCHANGED runvars

CallConvert ==
    /\ call = NoCall
    /\ \E n \in Norms, B \in AllCoeffs :
          call' = [fn |-> "convert_to_pH", norm_val |-> n, B |-> B,
                   result |-> convert_to_pH(n, B[1], B[2], B[3], B[4])]
    /\ UNCHANGED runvars

\* the record of one call of process_image: its arguments, what it returned,
\* the samples of the input's processor after it, and the processor returned
process_image_call(im, lower, upper, B, r) ==
    [fn |-> "process_image", img |-> im, lower |-> lower, upper |-> upper, B |-> B,
     result |-> returned_image(im, r), input_after |-> r.heap.img_ip, returned |-> r.returned]

CallProcess ==
    /\ call = NoCall
    /\ \E a \in ((SmallImages \X Ratios \X Ratios)
                   \cup {<<ExampleImage, ExampleLower, ExampleUpper>>}),
          B \in ProcCoeffs :
          call' = process_image_call(a[1], a[2], a[3], B, process_image_refs(a[1], a[2], a[3], B))
    /\ UNCHANGED runvars

PixelInit == RunOff /\ call = NoCall
PixelNext == CallNormalize \/ CallConvert \/ CallProcess
PixelSpec == PixelInit /\ [][PixelNext]_vars

\* ---------------------------------------------------------------- discovery

\* str.lower() on the characters the model uses
LowerChar(c) ==
    CASE c = "A" -> "a" [] c = "B" -> "b" [] c = "T" -> "t" [] c = "I" -> "i"
      [] c = "F" -> "f" [] c = "H" -> "h" [] OTHER -> c

lower(str) == [k \in 1 .. Len(str) |-> LowerChar(str[k])]

\* os.path.normcase: the identity on POSIX, lower case on Windows
normcase(str, platform) == IF platform = "nt" THEN lower(str) ELSE str

\* fnmatch.fnmatchcase for patterns made of "*", "?" and literal characters
RECURSIVE fnmatchcase(_, _)
fnmatchcase(name, pat) ==
    IF pat = <<>> THEN name = <<>>
    ELSE IF Head(pat) = "*"
         THEN \/ fnmatchcase(name, Tail(pat))
              \/ (name # <<>> /\ fnmatchcase(Tail(name), pat))
         ELSE /\ name # <<>>
              /\ (Head(pat) = "?" \/ Head(pat) = Head(name))
              /\ fnmatchcase(Tail(name), Tail(pat))

fnmatch(name, pat, platform) == fnmatchcase(normcase(name, platform), normcase(pat, platform))

\* any(fnmatch.fnmatch(filename.lower(), "*" + ext) for ext in extensions):
\* the pattern is built from extensions, not from the lower-cased
\* filteringStrings, which is computed and never read.
matches(filename, extensions, platform) ==
    \E k \in 1 .. Len(extensions) :
        fnmatch(lower(filename), <<"*">> \o extensions[k], platform)

join(dirpath, filename) == [dir |-> dirpath, name |-> filename]
basename(path) == path.name

RECURSIVE list_directory(_, _, _, _)
list_directory(dirpath, filenames, extensions, platform) ==
    IF filenames = <<>> THEN <<>>
    ELSE (IF matches(Head(filenames), extensions, platform)
          THEN <<join(dirpath, Head(filenames))>> ELSE <<>>)
         \o list_directory(dirpath, Tail(filenames), extensions, platform)

\* walk: what os.walk(directory) yields, a sequence of [dirpath, filenames]
RECURSIVE getFileList(_, _, _)
getFileList(walk, extensions, platform) ==
    IF walk = <<>> THEN <<>>
    ELSE list_directory(Head(walk).dirpath, Head(walk).filenames, extensions, platform)
         \o getFileList(Tail(walk), extensions, platform)

Platforms == {"posix", "nt"}

\* ---------------------------------------------------------------- discovery model

SeqsUpTo(S, n) == UNION {[1 .. m -> S] : m \in 0 .. n}

NameChars == {"a", "A", "t", "T"}
ExtChars == {"t", "T", "?"}
WalkNames == SeqsUpTo(NameChars, MaxNameLen) \ {<<>>}
WalkExts == SeqsUpTo(ExtChars, MaxExtLen)
WalkDirs == <<"in", "in/sub", "in/sub/sub">>

\* A tree with one file, in the input directory or below it.
OneFileWalk(depth, name) ==
    [k \in 1 .. 3 |-> [dirpath |-> WalkDirs[k],
                       filenames |-> IF k = depth THEN <<name>> ELSE <<>>]]

CallGetFileList ==
    /\ call = NoCall
    /\ \E name \in WalkNames, depth \in 1 .. 3, ext \in WalkExts, platform \in Platforms :
          call' = [fn |-> "getFileList", name |-> name, dir |-> WalkDirs[depth],
                   ext |-> ext, platform |-> platform,
                   result |-> getFileList(OneFileWalk(depth, name), <<ext>>, platform)]
    /\ UNCHANGED runvars

WalkInit == RunOff /\ call = NoCall
WalkNext == CallGetFileList
WalkSpec == WalkInit /\ [][WalkNext]_vars

\* ---------------------------------------------------------------- main code

Log(text, arg) == [kind |-> "log", text |-> text, arg |-> arg]

OpenImage(path, opened, by) == [kind |-> "openImage", path |-> path, img |-> opened, by |-> by]

\* get_mean_intensity(image_path), where opened is what IJ.openImage returns:
\* the exception raised (or "none"), what was done, and stats.mean
get_mean_intensity_nodepth(image_path, opened) ==
    LET ev == <<OpenImage(image_path, opened, "get_mean_intensity")>>
    IN  IF IsNone(opened)
        THEN [raise |-> "ValueError", mean |-> None,
              events |-> ev \o <<Log("Error: Cannot open calibration image", image_path)>>]
        ELSE [raise |-> "none", mean |-> opened.mean, events |-> ev]

get_mean_intensity(image_path, opened) ==
    LET ev == <<OpenImage(image_path, opened, "get_mean_intensity")>>
    IN  IF IsNone(opened)
        THEN [raise |-> "ValueError", mean |-> None,
              events |-> ev \o <<Log("Error: Cannot open calibration image", image_path)>>]
        ELSE IF opened.depth # 32
        THEN [raise |-> "ValueError", mean |-> None,
              events |-> ev \o <<Log("Error: Calibration image is not 32-bit", image_path)>>]
        ELSE [raise |-> "none", mean |-> opened.mean, events |-> ev]

Calibrated(raise, evs, lo, up) == [raise |-> raise, events |-> evs, lower |-> lo, upper |-> up]

\* the branch calib_mode == "From calibration images"
calibrate_from_images_swapped(opened_lower, opened_upper) ==
    IF lower_image = NoFile \/ upper_image = NoFile
    THEN Calibrated("Exception", <<Log("Error: Both calibration images must be provided.", <<>>)>>,
                    lower_ratio, upper_ratio)
    ELSE LET lo == get_mean_intensity(lower_image, opened_lower)
         IN  IF lo.raise # "none"
             THEN Calibrated(lo.raise, lo.events, lower_ratio, upper_ratio)
             ELSE LET up == get_mean_intensity(upper_image, opened_upper)
                  IN  IF up.raise # "none"
                      THEN Calibrated(up.raise, lo.events \o up.events, lo.mean, upper_ratio)
                      ELSE Calibrated("none",
                               lo.events \o up.events \o
                               << Log("", <<>>),
                                  Log("Info: Calibration image (lower pH) -> mean ratio", up.mean),
                                  Log("Info: Calibration image (upper pH) -> mean ratio", lo.mean) >>,
                               up.mean, lo.mean)

calibrate_from_images(opened_lower, opened_upper) ==
    IF lower_image = NoFile \/ upper_image = NoFile
    THEN Calibrated("Exception", <<Log("Error: Both calibration images must be provided.", <<>>)>>,
                    lower_ratio, upper_ratio)
    ELSE LET lo == get_mean_intensity(lower_image, opened_lower)
         IN  IF lo.raise # "none"
             THEN Calibrated(lo.raise, lo.events, lower_ratio, upper_ratio)
             ELSE LET up == get_mean_intensity(upper_image, opened_upper)
                  IN  IF up.raise # "none"
                      THEN Calibrated(up.raise, lo.events \o up.events, lo.mean, upper_ratio)
                      ELSE Calibrated("none",
                               lo.events \o up.events \o
                               << Log("", <<>>),
                                  Log("Info: Calibration image (lower pH) -> mean ratio", lo.mean),
                                  Log("Info: Calibration image (upper pH) -> mean ratio", up.mean) >>,
                               lo.mean, up.mean)

calibrate_manual_rejects_equal ==
    IF lower_ratio = None \/ upper_ratio = None
    THEN Calibrated("Exception", <<Log("Error: Both manual calibration values must be entered.", <<>>)>>,
                    lower_ratio, upper_ratio)
    ELSE IF lower_ratio = upper_ratio
    THEN Calibrated("Exception", <<Log("Error: The calibration values must differ.", <<>>)>>,
                    lower_ratio, upper_ratio)
    ELSE Calibrated("none", <<>>, lower_ratio, upper_ratio)

\* the branch calib_mode == "Manual"
calibrate_manual ==
    IF lower_ratio = None \/ upper_ratio = None
    THEN Calibrated("Exception", <<Log("Error: Both manual calibration values must be entered.", <<>>)>>,
                    lower_ratio, upper_ratio)
    ELSE Calibrated("none", <<>>, lower_ratio, upper_ratio)

\* the calibration block of the main code
calibration_block(opened_lower, opened_upper) ==
    IF calib_mode = "From calibration images"
    THEN calibrate_from_images(opened_lower, opened_upper)
    ELSE IF calib_mode = "Manual"
    THEN calibrate_manual
    ELSE Calibrated("Exception", <<Log("Invalid calibration mode selected.", <<>>)>>,
                    lower_ratio, upper_ratio)

\* What IJ.openImage can return for a calibration image.
CalibrationImage(depth, mean) == [depth |-> depth, mean |-> mean]
RunRatios == {Num(1), Num(2)}
CalResponses ==
    {NoneImg, CalibrationImage(8, Num(1))} \cup {CalibrationImage(32, m) : m \in RunRatios}

Calibrate ==
    /\ pc = "calib"
    /\ \E opened_lower \in CalResponses, opened_upper \in CalResponses :
          LET r == calibration_block(opened_lower, opened_upper)
          IN  /\ events' = events \o r.events
              /\ lower_ratio' = r.lower
              /\ upper_ratio' = r.upper
              /\ exc' = r.raise
              /\ pc' = IF r.raise = "none" THEN "discover" ELSE "aborted"
    /\ UNCHANGED <<calib_mode, lower_image, upper_image, lut_choice, lut_method, catalog,
                   files, i, img, pH_img, outdir, call>>

\* File names and directory trees of the batch.
NameA == <<"a", ".", "t", "i", "f">>
NameB == <<"b", ".", "T", "I", "F">>
NameC == <<"c", ".", "t", "x", "t">>
input_dir == "in"
sub_dir == "in/sub"
output_dir == "out"

DistinctSeqs(S, n) ==
    {q \in SeqsUpTo(S, n) : \A a \in 1 .. Len(q), b \in 1 .. Len(q) : a # b => q[a] # q[b]}

\* os.walk(input_dir): the input directory, then its sub-directory, each with
\* its file names in the order the file system lists them.
RunWalks ==
    {<<[dirpath |-> input_dir, filenames |-> top], [dirpath |-> sub_dir, filenames |-> sub]>> :
        top \in DistinctSeqs({NameA, NameB, NameC}, MaxFiles),
        sub \in DistinctSeqs({NameA}, MaxFiles)}

BoundedWalks == {w \in RunWalks : Len(w[1].filenames) + Len(w[2].filenames) <= MaxFiles}

RunExts == {<<"t", "i", "f">>, <<"T", "I", "F">>}

Discover ==
    /\ pc = "discover"
    /\ \E walk \in BoundedWalks, extension_ratio \in RunExts, platform \in Platforms :
          files' = getFileList(walk, <<extension_ratio>>, platform)
    /\ i' = 0
    /\ pc' = "loop"
    /\ UNCHANGED <<exc, calib_mode, lower_ratio, upper_ratio, lower_image, upper_image,
                   lut_choice, lut_method, catalog, img, pH_img, events, outdir, call>>

\* Script parameters that the main code only reads.
RunB == DefaultB
pH_min == 5
pH_max == 7

GreenFireBlue == "Green Fire Blue"
Fire == "Fire"
Thermal == "Thermal"

\* The LUT resolution of one iteration: the name to apply and the log lines.
\* LutLoader.getLut(name) is not None exactly for the names of the catalog.
lut_resolution_fire_first(name) ==
    IF name \notin catalog
    THEN IF Fire \in catalog
         THEN [lut |-> Fire,
               events |-> <<Log("LUT does not exist. Using default", <<name, Fire>>)>>]
         ELSE [lut |-> GreenFireBlue,
               events |-> <<Log("LUT does not exist. Using default", <<name, GreenFireBlue>>)>>]
    ELSE [lut |-> name, events |-> <<>>]

lut_resolution(name) ==
    IF name \notin catalog
    THEN IF GreenFireBlue \in catalog
         THEN [lut |-> GreenFireBlue,
               events |-> <<Log("LUT does not exist. Using default", <<name, GreenFireBlue>>)>>]
         ELSE [lut |-> Fire,
               events |-> <<Log("LUT does not exist. Using default", <<name, Fire>>)>>]
    ELSE [lut |-> name, events |-> <<>>]

Progress_zero_based(k, total) == [kind |-> "progress", i |-> k - 1, total |-> total]

Progress(k, total) == [kind |-> "progress", i |-> k, total |-> total]
ProcessImage(title, ok) == [kind |-> "process_image", title |-> title, ok |-> ok]
RunLut(name, title) == [kind |-> "run", cmd |-> name, title |-> title]
SetMinAndMax(title) == [kind |-> "setMinAndMax", min |-> pH_min, max |-> pH_max, title |-> title]
CalibrationBar(title) == [kind |-> "run", cmd |-> "Calibration Bar...", title |-> title]
SaveAs(path, ok) == [kind |-> "saveAs", path |-> path, ok |-> ok]

\* IJ.saveAs(pH_img, "Tiff", out_path): a file of that path is replaced
save(dir, path, image) == {f \in dir : f.path # path} \cup {[path |-> path, img |-> image]}

Outcome(evs, raise, lut, image, pH_image, dir) ==
    [events |-> evs, raise |-> raise, lut_method |-> lut, img |-> image,
     pH_img |-> pH_image, outdir |-> dir]

\* the two skips of the loop body
skip_could_not_open_fatal(head, file, opened) ==
    Outcome(head \o <<Log("Info: Could not open image", basename(file))>>,
            "IOError", lut_method, opened, pH_img, outdir)

skip_could_not_open(head, file, opened) ==
    Outcome(head \o <<Log("Info: Could not open image", basename(file))>>,
            "none", lut_method, opened, pH_img, outdir)

skip_not_32_bit_silent(head, file, opened) ==
    Outcome(head, "none", lut_method, opened, pH_img, outdir)

skip_not_32_bit(head, file, opened) ==
    Outcome(head \o <<Log("Info: Image is not 32-bit", basename(file))>>,
            "none", lut_method, opened, pH_img, outdir)

\* IJ.saveAs is called outside any try: its failure ends the script
raise_of_save_caught(save_ok) == "none"

raise_of_save(save_ok) == IF save_ok THEN "none" ELSE "saveAs failed"

visualize_and_save_bar_after_save(head, opened, res, save_ok) ==
    LET lr == lut_resolution(lut_method)
        undressed == [res EXCEPT !.lut = lr.lut, !.range = <<pH_min, pH_max>>]
        dressed == [undressed EXCEPT !.overlay = TRUE]
        out_path == join(output_dir, res.title)
        evs == head \o <<ProcessImage(opened.title, TRUE)>> \o lr.events
                    \o << RunLut(lr.lut, res.title), SetMinAndMax(res.title),
                          SaveAs(out_path, save_ok) >>
                    \o (IF save_ok THEN <<CalibrationBar(res.title)>> ELSE <<>>)
    IN  Outcome(evs, raise_of_save(save_ok), lr.lut, opened,
                IF save_ok THEN dressed ELSE undressed,
                IF save_ok THEN save(outdir, out_path, undressed) ELSE outdir)

visualize_and_save_local_lut(head, opened, res, save_ok) ==
    LET lr == lut_resolution(lut_method)
        dressed == [res EXCEPT !.lut = lr.lut, !.range = <<pH_min, pH_max>>, !.overlay = TRUE]
        out_path == join(output_dir, res.title)
        evs == head \o <<ProcessImage(opened.title, TRUE)>> \o lr.events
                    \o << RunLut(lr.lut, res.title), SetMinAndMax(res.title),
                          CalibrationBar(res.title), SaveAs(out_path, save_ok) >>
    IN  Outcome(evs, raise_of_save(save_ok), lut_method, opened, dressed,
                IF save_ok THEN save(outdir, out_path, dressed) ELSE outdir)

\* from the LUT to the save, for the image process_image returned; the
\* fallback assigns the script variable lut_method, which the next iteration reads
visualize_and_save(head, opened, res, save_ok) ==
    LET lr == lut_resolution(lut_method)
        dressed == [res EXCEPT !.lut = lr.lut, !.range = <<pH_min, pH_max>>, !.overlay = TRUE]
        out_path == join(output_dir, res.title)
        evs == head \o <<ProcessImage(opened.title, TRUE)>> \o lr.events
                    \o << RunLut(lr.lut, res.title), SetMinAndMax(res.title),
                          CalibrationBar(res.title), SaveAs(out_path, save_ok) >>
    IN  Outcome(evs, raise_of_save(save_ok), lr.lut, opened, dressed,
                IF save_ok THEN save(outdir, out_path, dressed) ELSE outdir)

\* One iteration of the loop for files[k]; opened is what IJ.openImage
\* returns and save_ok whether IJ.saveAs succeeds.
loop_body(k, opened, save_ok) ==
    LET file == files[k]
        head == <<Progress(k, Len(files)), OpenImage(file, opened, "main")>>
    IN  IF IsNone(opened)
        THEN skip_could_not_open(head, file, opened)
        ELSE IF opened.depth # 32
        THEN skip_not_32_bit(head, file, opened)
        ELSE LET res == process_image(opened, lower_ratio, upper_ratio, RunB)
             IN  IF Raised(res)
                 THEN Outcome(head \o <<ProcessImage(opened.title, FALSE)>>, res.exc,
                              lut_method, opened, pH_img, outdir)
                 ELSE visualize_and_save(head, opened, res, save_ok)

\* What IJ.openImage can return for a batch file: nothing, an 8-bit image, or
\* a 32-bit image without a valid sample or with one.  The title is the file name.
NoDataPix == (<<0, 0>> :> NaN) @@ (<<1, 0>> :> Num(0))
SignalPix == (<<0, 0>> :> Num(0)) @@ (<<1, 0>> :> Num(2))
OpenResponses(file) ==
    { NoneImg,
      [title |-> file.name, depth |-> 8, w |-> 1, h |-> 1, pix |-> (<<0, 0>> :> Num(1))],
      Image32(file.name, 2, 1, NoDataPix),
      Image32(file.name, 2, 1, SignalPix) }

\* enumerate(files, 1) has no further file
loop_exhausted == i = Len(files)

Iterate ==
    /\ pc = "loop"
    /\ ~loop_exhausted
    /\ \E opened \in OpenResponses(files[i + 1]), save_ok \in BOOLEAN :
          LET r == loop_body(i + 1, opened, save_ok)
          IN  /\ events' = events \o r.events
              /\ exc' = r.raise
              /\ pc' = IF r.raise = "none" THEN "loop" ELSE "aborted"
              /\ lut_method' = r.lut_method
              /\ img' = r.img
              /\ pH_img' = r.pH_img
              /\ outdir' = r.outdir
    /\ i' = i + 1
    /\ UNCHANGED <<calib_mode, lower_ratio, upper_ratio, lower_image, upper_image,
                   lut_choice, catalog, files, call>>

finish_log_twice == <<Log("Script finished !", <<>>), Log("Script finished !", <<>>)>>

finish_log == <<Log("Script finished !", <<>>)>>

Finish ==
    /\ pc = "loop"
    /\ loop_exhausted
    /\ events' = events \o finish_log
    /\ pc' = "done"
    /\ UNCHANGED <<exc, calib_mode, lower_ratio, upper_ratio, lower_image, upper_image,
                   lut_choice, lut_method, catalog, files, i, img, pH_img, outdir, call>>

LowerPath == [dir |-> "calibration", name |-> <<"l", "o", ".", "t", "i", "f">>]
UpperPath == [dir |-> "calibration", name |-> <<"u", "p", ".", "t", "i", "f">>]

Modes == {"Manual", "From calibration images", "Automatic"}

Init ==
    /\ pc = "calib"
    /\ exc = "none"
    /\ calib_mode \in Modes
    /\ lower_ratio \in RunRatios \cup {None}
    /\ upper_ratio \in RunRatios \cup {None}
    /\ lower_image \in {NoFile, LowerPath}
    /\ upper_image \in {NoFile, UpperPath}
    /\ lut_choice \in {GreenFireBlue, Thermal}
    /\ lut_method = lut_choice
    /\ catalog \in {{Fire} \cup c : c \in SUBSET {GreenFireBlue, Thermal}}
    /\ files = <<>>
    /\ i = 0
    /\ img = NoneImg
    /\ pH_img = NoneImg
    /\ events = <<Log("Script starting", <<>>)>>
    /\ outdir = {}
    /\ call = NoCall

Next == Calibrate \/ Discover \/ Iterate \/ Finish

Spec == Init /\ [][Next]_vars

\* The script is one thread that runs to its end: every step that can be
\* taken is taken.
FairSpec == Spec /\ WF_vars(Next)

\* ---------------------------------------------------------------- claims: pixel functions

\* C3: process_image returns a buffer of the same width and height as its
\* input; a sample that is NaN or exactly 0 gives NaN; every other sample
\* (bounds different) gives convert_to_pH(normalize_pixel(sample)), never NaN;
\* with bounds 100, 200 and coefficients (0,0,1,0): 150 -> 1/2, 0 -> NaN,
\* 250 -> 1.  With different bounds the call always returns.
C3_TransformSamples ==
    call.fn = "process_image" =>
        LET im == call.img
            r == call.result
            B == call.B
        IN  /\ (call.lower # call.upper) => ~Raised(r)
            /\ ~Raised(r) =>
                 /\ r.w = im.w /\ r.h = im.h
                 /\ DOMAIN r.pix = Positions(im.w, im.h)
                 /\ \A p \in Positions(im.w, im.h) :
                      IF im.pix[p] = NaN \/ im.pix[p] = Num(0)
                      THEN r.pix[p] = NaN
                      ELSE /\ call.lower # call.upper
                           /\ r.pix[p] # NaN
                           /\ r.pix[p].k = "num"
                           /\ r.pix[p] = convert_to_pH(
                                  normalize_pixel(im.pix[p], call.lower, call.upper),
                                  B[1], B[2], B[3], B[4])
            /\ (im = ExampleImage /\ B = IdentityB) =>
                 /\ r.pix[<<0, 0>>] = Flt(1, 2)
                 /\ r.pix[<<1, 0>>] = NaN
                 /\ r.pix[<<2, 0>>] = Num(1)

C3_Witness ==
    /\ call.fn = "process_image"
    /\ call.img = ExampleImage /\ call.B = IdentityB
    /\ call.lower = Num(100) /\ call.upper = Num(200)
    /\ ~Raised(call.result)
    /\ call.result.pix[<<0, 0>>] = Flt(1, 2)
    /\ call.result.pix[<<1, 0>>] = NaN

\* C4: for bounds l # u (u < l included) normalize_pixel(v, l, u) lies in
\* [0, 1]; normalize_pixel(l, l, u) = 0; normalize_pixel(u, l, u) = 1 when u > l.
C4_NormalizeRange ==
    (call.fn = "normalize_pixel" /\ call.lower # call.upper) =>
        LET r == call.result
        IN  /\ ~Raised(r)
            /\ r.k = "num"
            /\ 0 <= r.n /\ r.n <= r.d
            /\ (call.val = call.lower) => r = Num(0)
            /\ (call.val = call.upper /\ FLt(call.lower, call.upper)) => r = Num(1)

C4_Witness ==
    /\ call.fn = "normalize_pixel"
    /\ FLt(call.upper, call.lower) /\ FLt(call.val, call.upper)
    /\ call.result = Num(1)

\* B3*n^3 + B2*n^2 + B1*n + B0 for n = p/q and whole-numbered coefficients,
\* computed over the common denominator q^3
Polynomial(p, q, B) ==
    Flt(B[1].n * p * p * p + B[2].n * p * p * q + B[3].n * p * q * q + B[4].n * q * q * q,
        q * q * q)

\* C11: convert_to_pH(n, B3, B2, B1, B0) is B3*n^3 + B2*n^2 + B1*n + B0 for
\* every n and every coefficient tuple (NaN for n = NaN); it is B0 at n = 0
\* and B3 + B2 + B1 + B0 at n = 1.
C11_ConvertIsPolynomial ==
    call.fn = "convert_to_pH" =>
        LET n == call.norm_val
            B == call.B
            r == call.result
        IN  /\ isnan(n) => isnan(r)
            /\ ~isnan(n) => r = Polynomial(n.n, n.d, B)
            /\ (n = Num(0)) => r = B[4]
            /\ (n = Num(1)) => r = Num(B[1].n + B[2].n + B[3].n + B[4].n)

\* 2/8 - 2/4 + 1/2 + 2 = 9/4
C11_Witness ==
    /\ call.fn = "convert_to_pH"
    /\ call.norm_val = Flt(1, 2)
    /\ call.B = <<Num(2), Num(-2), Num(1), Num(2)>>
    /\ call.result = Flt(9, 4)

\* C16: process_image does not change its input: when it returns (and when it
\* raises) every sample of the processor of the input image has the value it
\* had before the call, and the image returned is made of the processor that
\* the call created, not of the input's.
C16_InputNotMutated ==
    call.fn = "process_image" =>
        /\ call.input_after = call.img.pix
        /\ call.returned = "pH_ip"

\* a call that computes a sample different from the input's: 2 -> 6
C16_Witness ==
    /\ call.fn = "process_image"
    /\ call.B = DefaultB
    /\ call.lower = Num(0) /\ call.upper = Num(1)
    /\ call.img.w = 2
    /\ call.img.pix[<<0, 0>>] = Num(2)
    /\ ~Raised(call.result)
    /\ call.result.pix[<<0, 0>>] = Num(6)
    /\ call.input_after[<<0, 0>>] = Num(2)

\* ---------------------------------------------------------------- claims: discovery

EndsWith(str, suffix) ==
    /\ Len(suffix) <= Len(str)
    /\ SubSeq(str, Len(str) - Len(suffix) + 1, Len(str)) = suffix

\* a filter without wildcard characters
Letters(str) == \A k \in 1 .. Len(str) : str[k] \notin {"?", "*"}

\* C8: a file, at any depth under the input directory, is discovered if and
\* only if its lower-cased name ends with the lower-cased extension filter
\* (stated for the filters made of letters, in any mix of upper and lower case).
C8_DiscoveryCaseInsensitive ==
    (call.fn = "getFileList" /\ Letters(call.ext)) =>
        ((join(call.dir, call.name) \in {call.result[k] : k \in 1 .. Len(call.result)})
            <=> EndsWith(lower(call.name), lower(call.ext)))

\* ---------------------------------------------------------------- claims: main code

IsBatchOpen(e) == e.kind = "openImage" /\ e.by = "main"
IsCalibrationOpen(e) == e.kind = "openImage" /\ e.by = "get_mean_intensity"
IsSave(e) == e.kind = "saveAs"
IsSkipLog(e) ==
    e.kind = "log" /\ e.text \in {"Info: Could not open image", "Info: Image is not 32-bit"}
IsLutLog(e) == e.kind = "log" /\ e.text = "LUT does not exist. Using default"
IsFinishLog(e) == e.kind = "log" /\ e.text = "Script finished !"
IsRunLut(e) == e.kind = "run" /\ e.cmd # "Calibration Bar..."
IsProcessed(e) == e.kind = "process_image" /\ e.ok

BatchOpens == SelectSeq(events, IsBatchOpen)
CalibrationOpens == SelectSeq(events, IsCalibrationOpen)
Saves == SelectSeq(events, IsSave)
SkipLogs == SelectSeq(events, IsSkipLog)
FinishLogs == SelectSeq(events, IsFinishLog)

\* the image opened is a 32-bit image
Valid(opened) == ~IsNone(opened) /\ opened.depth = 32

CalibrationSucceeded == pc \in {"discover", "loop", "done"} \/ (pc = "aborted" /\ exc \notin {"Exception", "ValueError"})

\* the causes of a failing calibration, read from the state after the block
CalibrationFails ==
    \/ calib_mode \notin {"Manual", "From calibration images"}
    \/ calib_mode = "Manual" /\ (lower_ratio = None \/ upper_ratio = None)
    \/ /\ calib_mode = "From calibration images"
       /\ \/ lower_image = NoFile
          \/ upper_image = NoFile
          \/ \E k \in 1 .. Len(CalibrationOpens) : ~Valid(CalibrationOpens[k].img)

\* C1: when calibration resolution fails (Manual mode with a value missing;
\* image mode with a path missing, an image that cannot be opened or is not
\* 32-bit; any other mode), the script stops with an error, no batch file is
\* ever opened and no output is ever saved.
C1_CalibrationGatesRun ==
    (pc # "calib" /\ CalibrationFails) =>
        /\ pc = "aborted"
        /\ exc \in {"Exception", "ValueError"}
        /\ ~ENABLED Next
        /\ BatchOpens = <<>>
        /\ Saves = <<>>
        /\ outdir = {}
        /\ files = <<>>

C1_Witness ==
    /\ pc = "aborted"
    /\ calib_mode = "From calibration images"
    /\ exc = "ValueError"
    /\ Len(CalibrationOpens) = 2
    /\ CalibrationOpens[1].img = CalibrationImage(32, Num(1))
    /\ CalibrationOpens[2].img = CalibrationImage(8, Num(1))
    /\ BatchOpens = <<>>

\* The outputs and skip lines the opened files call for, in the order of the files.
RECURSIVE ExpectedSaves(_)
ExpectedSaves(opens) ==
    IF opens = <<>> THEN <<>>
    ELSE (IF Valid(Head(opens).img)
          THEN <<join(output_dir, <<"p", "H", "_">> \o Head(opens).img.title)>>
          ELSE <<>>) \o ExpectedSaves(Tail(opens))

RECURSIVE ExpectedSkips(_)
ExpectedSkips(opens) ==
    IF opens = <<>> THEN <<>>
    ELSE (IF Valid(Head(opens).img) THEN <<>>
          ELSE <<Head(opens).path.name>>) \o ExpectedSkips(Tail(opens))

AllAttempted ==
    /\ Len(BatchOpens) = Len(files)
    /\ \A k \in 1 .. Len(files) : BatchOpens[k].path = files[k]

SkippedAndSavedExactly ==
    /\ [k \in 1 .. Len(Saves) |-> Saves[k].path] = ExpectedSaves(BatchOpens)
    /\ \A k \in 1 .. Len(Saves) : Saves[k].ok
    /\ [k \in 1 .. Len(SkipLogs) |-> SkipLogs[k].arg] = ExpectedSkips(BatchOpens)

Ended == pc \in {"done", "aborted"}

\* C2 as stated: with calibration succeeded and no save failure, every
\* discovered file is attempted, the files that fail to open or are not 32-bit
\* are logged and skipped, and exactly the others get an output "pH_" + title.
C2_Original ==
    (Ended /\ CalibrationSucceeded /\ exc # "saveAs failed") =>
        (AllAttempted /\ SkippedAndSavedExactly)

\* C2 amended: with calibration succeeded with lower # upper and no save
\* failure, the run reaches its end, every discovered file is attempted, the
\* files that fail to open or are not 32-bit are logged and skipped, and
\* exactly the others get an output "pH_" + title.
C2_SkipsNeverHalt ==
    (Ended /\ CalibrationSucceeded /\ exc # "saveAs failed" /\ lower_ratio # upper_ratio) =>
        /\ pc = "done"
        /\ exc = "none"
        /\ AllAttempted
        /\ SkippedAndSavedExactly

\* A wrong depth, B unopenable, C valid: one output, pH_C, and two skip lines
C2_Witness ==
    /\ pc = "done"
    /\ Len(files) = 3
    /\ Len(BatchOpens) = 3
    /\ ~IsNone(BatchOpens[1].img) /\ BatchOpens[1].img.depth = 8
    /\ IsNone(BatchOpens[2].img)
    /\ Valid(BatchOpens[3].img)
    /\ Len(Saves) = 1
    /\ Saves[1].path = join(output_dir, <<"p", "H", "_">> \o files[3].name)
    /\ Len(SkipLogs) = 2

\* the LUT the fixed priority picks for the name chosen
PriorityLut ==
    IF lut_choice \in catalog THEN lut_choice
    ELSE IF GreenFireBlue \in catalog THEN GreenFireBlue
    ELSE Fire

\* C5: LUT resolution never fails and picks by fixed priority: the LUT
\* applied to a processed file is the chosen name if the catalog has it;
\* otherwise "Green Fire Blue" if the catalog has it, otherwise "Fire", and
\* then a substitution naming the LUT applied has been logged.
C5_LutPriority ==
    /\ Len(SelectSeq(events, IsRunLut)) = Len(SelectSeq(events, IsProcessed))
    /\ \A k \in 1 .. Len(events) :
          IsRunLut(events[k]) =>
              /\ events[k].cmd = PriorityLut
              /\ (lut_choice \notin catalog) =>
                     \E j \in 1 .. k - 1 :
                         /\ IsLutLog(events[j])
                         /\ events[j].arg = <<lut_choice, events[k].cmd>>

C5_Witness ==
    /\ lut_choice = Thermal
    /\ catalog = {Fire}
    /\ Len(SelectSeq(events, IsRunLut)) = 2
    /\ \A k \in 1 .. Len(events) : IsRunLut(events[k]) => events[k].cmd = Fire

\* C6: a failing save is not caught: the script ends with the exception at
\* the file at position i, no later file is opened, transformed or saved, and
\* the outputs saved for the files before i are still in the output directory.
C6_SaveFailureIsFatal ==
    (\E k \in 1 .. Len(events) : IsSave(events[k]) /\ ~events[k].ok) =>
        /\ pc = "aborted"
        /\ exc = "saveAs failed"
        /\ ~ENABLED Next
        /\ IsSave(events[Len(events)]) /\ ~events[Len(events)].ok
        /\ \A k \in 1 .. Len(events) - 1 : IsSave(events[k]) => events[k].ok
        /\ Len(BatchOpens) = i
        /\ Len(SelectSeq(events, IsProcessed)) = Len(Saves)
        /\ FinishLogs = <<>>
        /\ \A k \in 1 .. Len(events) - 1 :
              IsSave(events[k]) => \E f \in outdir : f.path = events[k].path

C6_Witness ==
    /\ exc = "saveAs failed"
    /\ i = 2 /\ Len(files) = 3
    /\ Len(Saves) = 2
    /\ Cardinality(outdir) = 1

\* the completion line is there once, exactly when the run is done
FinishedOnce ==
    /\ Len(FinishLogs) <= 1
    /\ (Len(FinishLogs) = 1) <=> (pc = "done")
    /\ (pc = "done") =>
          /\ exc = "none"
          /\ IsFinishLog(events[Len(events)])
          /\ AllAttempted
          /\ i = Len(files)

\* C7: when calibration succeeds and no fatal error occurs, the run ends and
\* "Script finished !" is logged exactly once, and only after every
\* discovered file has been attempted (an empty list and a list of skipped
\* files included).
C7_CompletionLogged ==
    /\ [](FinishedOnce)
    /\ (pc = "discover") ~> (pc = "done" \/ exc # "none")
    /\ [](pc = "aborted" => exc # "none")

C7_Witness ==
    /\ pc = "done"
    /\ Len(files) = 2
    /\ Saves = <<>>
    /\ Len(SkipLogs) = 2
    /\ Len(FinishLogs) = 1

\* an event that reports outcome counts
IsReport(e) == e.kind = "report"

\* C9 as stated: the run reports outcome counts, processed being the number
\* of outputs saved and skipped the number of files skipped.
C9_Original ==
    (pc = "done") =>
        \E k \in 1 .. Len(events) :
            /\ IsReport(events[k])
            /\ events[k].processed = Len(Saves)
            /\ events[k].skipped = Len(SkipLogs)

\* the files that opened as 32-bit images, and the others
NumValid == Cardinality({k \in 1 .. Len(BatchOpens) : Valid(BatchOpens[k].img)})
NumInvalid == Cardinality({k \in 1 .. Len(BatchOpens) : ~Valid(BatchOpens[k].img)})

\* C9 amended: no counts are reported; at the end of a run without fatal
\* error the number of outputs saved is the number of files that opened as
\* 32-bit images, the number of skip lines is the number of the other files,
\* and the two add up to the number of discovered files.
C9_CountsFromLog ==
    (pc = "done") =>
        /\ \A k \in 1 .. Len(events) : ~IsReport(events[k])
        /\ Len(Saves) = NumValid
        /\ Len(SkipLogs) = NumInvalid
        /\ Len(Saves) + Len(SkipLogs) = Len(files)

C9_Witness ==
    /\ pc = "done"
    /\ Len(files) = 3
    /\ Len(Saves) = 1
    /\ Len(SkipLogs) = 2
    /\ IsNone(BatchOpens[2].img)
    /\ ~IsNone(BatchOpens[1].img) /\ BatchOpens[1].img.depth = 8

\* the step of the calibration block that succeeds
CalibrationStep == pc = "calib" /\ pc' = "discover"

BoundsFromOneSource ==
    CalibrationStep =>
        LET opens == SelectSeq(events', IsCalibrationOpen)
        IN  /\ calib_mode \in {"Manual", "From calibration images"}
            /\ (calib_mode = "Manual") =>
                  /\ lower_ratio' = lower_ratio /\ upper_ratio' = upper_ratio
                  /\ lower_ratio' # None /\ upper_ratio' # None
                  /\ opens = <<>>
            /\ (calib_mode = "From calibration images") =>
                  /\ Len(opens) = 2
                  /\ opens[1].path = lower_image /\ lower_ratio' = opens[1].img.mean
                  /\ opens[2].path = upper_image /\ upper_ratio' = opens[2].img.mean

\* C10: the bounds come from one source, chosen by the mode.  Manual: the
\* bounds are the values entered and no calibration image is opened.  From
\* calibration images: lower_ratio is the mean of the image at lower_image and
\* upper_ratio the mean of the image at upper_image, whatever was entered.
C10_BoundsFromOneSource == [][BoundsFromOneSource]_vars

C10_Witness ==
    /\ pc = "discover"
    /\ calib_mode = "From calibration images"
    /\ Len(CalibrationOpens) = 2
    /\ CalibrationOpens[1].img.mean = Num(2) /\ lower_ratio = Num(2)
    /\ CalibrationOpens[2].img.mean = Num(1) /\ upper_ratio = Num(1)

IsProgress(e) == e.kind = "progress"
Progresses == SelectSeq(events, IsProgress)

\* (1, total), (2, total), ... one for each iteration begun, in this order
ProgressOncePerIteration ==
    /\ Progresses = [k \in 1 .. i |-> Progress(k, Len(files))]
    /\ (pc = "done") => Len(Progresses) = Len(files)

\* the number of batch files opened before the event at position j
OpensBefore(j) == Len(SelectSeq(SubSeq(events, 1, j - 1), IsBatchOpen))

\* C12 as stated: the progress event (k, total) is emitted once for each
\* file, in increasing order, skipped files included, and only after the
\* file at position k has been opened and handled.
C12_Original ==
    /\ ProgressOncePerIteration
    /\ \A j \in 1 .. Len(events) :
          IsProgress(events[j]) => OpensBefore(j) >= events[j].i

\* C12 amended: the progress event (k, total) is emitted once for each file
\* whose iteration begins, in increasing order, skipped files included, as the
\* first step of the iteration: the next thing done is to open the file at
\* position k, and only the k - 1 files before it have been opened.
C12_ProgressBeforeOpen ==
    /\ ProgressOncePerIteration
    /\ \A j \in 1 .. Len(events) :
          IsProgress(events[j]) =>
              /\ OpensBefore(j) = events[j].i - 1
              /\ j < Len(events)
              /\ IsBatchOpen(events[j + 1])
              /\ events[j + 1].path = files[events[j].i]

\* first file unopenable, second processed: (1, 2) and (2, 2)
C12_Witness ==
    /\ pc = "done"
    /\ Len(files) = 2
    /\ Len(BatchOpens) = 2
    /\ IsNone(BatchOpens[1].img)
    /\ Valid(BatchOpens[2].img)
    /\ Len(Saves) = 1
    /\ Progresses = <<Progress(1, 2), Progress(2, 2)>>

LutLogs == SelectSeq(events, IsLutLog)
NumProcessed == Len(SelectSeq(events, IsProcessed))

\* C13 as stated: with the chosen LUT absent from the catalog, one
\* substitution line is logged for every processed file, and the name the
\* next file starts from is still the chosen one.
C13_Original ==
    /\ Len(LutLogs) = (IF lut_choice \notin catalog THEN NumProcessed ELSE 0)
    /\ lut_method = lut_choice

\* the position of the first transformed file among the events
FirstProcessed == CHOOSE j \in 1 .. Len(events) :
    IsProcessed(events[j]) /\ \A m \in 1 .. j - 1 : ~IsProcessed(events[m])

\* C13 amended: the substitution is made and logged once in a run.  With the
\* chosen LUT absent from the catalog, the first processed file logs the
\* substitution, between its transform and the application of the LUT, and
\* assigns the substitute to lut_method; the later files start from the
\* substitute and log nothing.  With the chosen LUT present nothing is logged
\* and lut_method keeps the chosen name.
C13_SubstitutionLoggedOnce ==
    /\ Len(LutLogs) = (IF lut_choice \notin catalog /\ NumProcessed >= 1 THEN 1 ELSE 0)
    /\ lut_method = (IF NumProcessed >= 1 THEN PriorityLut ELSE lut_choice)
    /\ \A j \in 1 .. Len(events) :
          IsLutLog(events[j]) =>
              /\ j = FirstProcessed + 1
              /\ events[j].arg = <<lut_choice, PriorityLut>>
              /\ IsRunLut(events[j + 1])
              /\ events[j + 1].cmd = PriorityLut

\* Thermal chosen but absent, two files processed: one line, for the first
C13_Witness ==
    /\ pc = "done"
    /\ lut_choice = Thermal
    /\ catalog = {Fire, GreenFireBlue}
    /\ NumProcessed = 2
    /\ Len(LutLogs) = 1
    /\ lut_method = GreenFireBlue

IsTransform(e) == e.kind = "process_image"

\* the position of the transform in the iteration whose save is at position j:
\* LUT, display range and bar lie between, and a substitution line if any
TransformOf(j) == IF IsLutLog(events[j - 4]) THEN j - 5 ELSE j - 4

\* the output at position j was opened, checked, transformed, given the
\* resolved LUT, the display range and the calibration bar, in this order
FullyDressed(j) ==
    LET t == TransformOf(j)
    IN  /\ j > 5
        /\ events[j - 1] = CalibrationBar(events[j - 1].title)
        /\ events[j - 2] = SetMinAndMax(events[j - 2].title)
        /\ events[j - 2].min = pH_min /\ events[j - 2].max = pH_max
        /\ IsRunLut(events[j - 3]) /\ events[j - 3].cmd = PriorityLut
        /\ IsProcessed(events[t])
        /\ IsBatchOpen(events[t - 1]) /\ Valid(events[t - 1].img)
        /\ events[t].title = events[t - 1].img.title
        /\ IsProgress(events[t - 2])
        /\ events[t - 1].path = files[events[t - 2].i]
        /\ LET title == PH_PREFIX \o events[t].title
           IN  /\ events[j - 3].title = title
               /\ events[j - 2].title = title
               /\ events[j - 1].title = title
               /\ events[j].path = join(output_dir, title)

\* C14: for each processed file the steps are open, depth check, transform,
\* resolved LUT, display range [pH_min, pH_max], calibration bar, save, in
\* this order; every output saved carries LUT, display range and bar; the
\* transform is only applied to a file that opened as a 32-bit image, and every
\* image transformed goes on to the save; an iteration begins only when the
\* file before it has been saved or skipped.
C14_SequentialAndDressed ==
    /\ \A j \in 1 .. Len(events) :
          /\ IsSave(events[j]) => FullyDressed(j)
          /\ IsTransform(events[j]) =>
                 /\ IsBatchOpen(events[j - 1]) /\ Valid(events[j - 1].img)
                 /\ events[j].ok => \E m \in {j + 4, j + 5} : m <= Len(events) /\ IsSave(events[m])
          /\ IsBatchOpen(events[j]) => IsProgress(events[j - 1])
          /\ (IsProgress(events[j]) /\ events[j].i > 1) =>
                 \/ IsSave(events[j - 1]) /\ events[j - 1].ok
                 \/ IsSkipLog(events[j - 1])
    /\ \A f \in outdir :
          /\ f.img.lut = PriorityLut
          /\ f.img.range = <<pH_min, pH_max>>
          /\ f.img.overlay
          /\ f.path = join(output_dir, f.img.title)

\* two files processed one after the other, the chosen LUT in the catalog
C14_Witness ==
    /\ pc = "done"
    /\ lut_choice \in catalog
    /\ Len(files) = 2
    /\ Len(Saves) = 2
    /\ Cardinality(outdir) = 2
    /\ IsSave(events[Len(events) - 1])
    /\ FullyDressed(Len(events) - 1)

\* a buffer is held as long as a script variable refers to it
HeldBuffers == {b \in {img, pH_img} : ~IsNone(b)}

\* C15: per-file resources are released on every exit path of an iteration
\* (save, not-32-bit skip, open-failure skip): between two iterations and at
\* the end of the run no buffer of an earlier file is held.
C15_ResourcesReleased ==
    (pc \in {"loop", "done"}) => HeldBuffers = {}

\* C17: one output file per processed input: the saves of a run go to
\* different paths, none replaces the output of an earlier file, and at the end
\* of a run without fatal error the output directory holds as many files as
\* were processed, also when files of different sub-directories share a name.
C17_OneOutputPerInput ==
    /\ \A a \in 1 .. Len(Saves), b \in 1 .. Len(Saves) :
          (a # b) => Saves[a].path # Saves[b].path
    /\ (pc = "done") => Cardinality(outdir) = NumProcessed

\* the image has a sample that is neither NaN nor 0
HasSignal(im) == \E p \in DOMAIN im.pix : ~isnan(im.pix[p]) /\ ~FEqZero(im.pix[p])

\* calibration was given all it needs and the two bounds are equal
EqualBounds == pc # "calib" /\ ~CalibrationFails /\ lower_ratio = upper_ratio

\* C18: equal bounds are not rejected.  With lower_ratio = upper_ratio (either
\* mode) the calibration block raises nothing and the batch starts; a 32-bit
\* file whose samples are all NaN or 0 is transformed and goes on to the save;
\* the first 32-bit file with another sample raises ZeroDivisionError in the
\* transform, which ends the script: nothing is saved for it and no later file
\* is opened.
C18_EqualBoundsNotRejected ==
    EqualBounds =>
        /\ exc \notin {"Exception", "ValueError"}
        /\ pc \in {"discover", "loop", "done", "aborted"}
        /\ (exc = "ZeroDivisionError") <=>
               \E j \in 1 .. Len(BatchOpens) :
                   Valid(BatchOpens[j].img) /\ HasSignal(BatchOpens[j].img)
        /\ \A j \in 1 .. Len(events) :
              (IsBatchOpen(events[j]) /\ Valid(events[j].img)) =>
                  IF HasSignal(events[j].img)
                  THEN /\ Len(events) = j + 1
                       /\ events[j + 1] = ProcessImage(events[j].img.title, FALSE)
                       /\ pc = "aborted"
                       /\ exc = "ZeroDivisionError"
                       /\ ~ENABLED Next
                       /\ Len(BatchOpens) = i
                       /\ Cardinality(outdir) <= Len(Saves)
                  ELSE /\ events[j + 1] = ProcessImage(events[j].img.title, TRUE)
                       /\ \E m \in {j + 5, j + 6} :
                             /\ m <= Len(events)
                             /\ IsSave(events[m])
                             /\ events[m].path = join(output_dir, PH_PREFIX \o events[j].img.title)
                             /\ events[m].ok =>
                                    \E f \in outdir :
                                        /\ f.path = events[m].path
                                        /\ \A p \in DOMAIN f.img.pix : isnan(f.img.pix[p])

\* bounds 1 and 1 entered: the first file, without a valid sample, is saved;
\* the second, with one, ends the run; the third is never opened
C18_Witness ==
    /\ calib_mode = "Manual"
    /\ lower_ratio = Num(1) /\ upper_ratio = Num(1)
    /\ pc = "aborted"
    /\ exc = "ZeroDivisionError"
    /\ Len(files) = 3
    /\ i = 2
    /\ Len(BatchOpens) = 2
    /\ Valid(BatchOpens[1].img) /\ ~HasSignal(BatchOpens[1].img)
    /\ Valid(BatchOpens[2].img) /\ HasSignal(BatchOpens[2].img)
    /\ Len(Saves) = 1
    /\ Cardinality(outdir) = 1

====
